---------------------------- MODULE Spec2Model ----------------------------
(***************************************************************************)
(* A model of the third-person camera rig of SimpleThirdPersonCamera.py    *)
(* (the base class) and SimpleThirdPersonCameraPandaCollision.py (the      *)
(* four-segment probe), driven the way SimpleThirdPersonCameraTester.py    *)
(* drives them: construction, setCurrentSide, update(dt, sceneRoot) once   *)
(* per frame, cleanup.                                                     *)
(*                                                                         *)
(* Numbers.  The code computes in floating point (Python floats, stored    *)
(* by Panda3D's setX/setY in a finite-precision PN_stdfloat).  The model   *)
(* keeps every length on an integer grid of GridPerMilli points per 0.001  *)
(* world units and every time in DtDen-ths of a second; a product that     *)
(* leaves the grid (yDiff*offsetVal, a vector length) is rounded to the    *)
(* nearest grid point, ties to even, as the floating-point operation is.   *)
(***************************************************************************)
EXTENDS Integers, Sequences, FiniteSets, TLC

VARIABLES
    kind,           \* the class of the rig: "base" or "panda"
    rig,            \* the fields of the Python object (self.*)
    nodes,          \* the scene-graph nodes that exist
    parent,         \* node -> its parent node (NoParent when detached)
    baseX,          \* cameraBase.getX(): the lateral offset
    baseZ,          \* cameraBase.getZ()
    baseP,          \* cameraBase.getP()
    holderY,        \* cameraHolder.getY(): minus the distance
    travColliders,  \* the colliders registered in self.traverser
    queue,          \* the entries of self.collisionQueue, as last sorted
    raised,         \* the exception the last call raised, NoError if none
    lastCall,       \* the last method called on the rig
    lastDt,         \* the dt of the last update call
    lastObstacle,   \* what getNearestCollision returned in the last update:
                    \* <<d>> for a distance d, <<>> for None
    releases,       \* how many times each resource has been released
    cleanupCalls    \* how many times cleanup has been called

vars == <<kind, rig, nodes, parent, baseX, baseZ, baseP, holderY, travColliders,
          queue, raised, lastCall, lastDt, lastObstacle, releases, cleanupCalls>>

---------------------------------------------------------------------------
(* Bounds of the model *)

GridPerMilli == 4       \* grid points per 0.001 world units
DtDen == 2              \* dt is counted in DtDen-ths of a second
MaxDt == 2              \* the largest dt, in DtDen-ths of a second
MaxDistance == 6        \* intendedDistance, in grid points
MaxShoulder == 5        \* the largest shoulderSideDistance, in grid points
MaxRadius == 3          \* the larger colliderRadius, in grid points
MaxHits == 2            \* intersections one traversal of the scene records (SpecProbe)
DepthStep == 3          \* spacing of the depths at which a segment is hit
MaxCleanups == 2        \* cleanup calls modelled

---------------------------------------------------------------------------
(* Python and Panda3D values *)

None == "None"                  \* Python's None, as the value of an attribute
NoValue == <<>>                 \* Python's None, as what a call returns
Value(v) == <<v>>               \* a number, as what a call returns
IsNone(ret) == ret = <<>>
Unset == "unset"                \* an attribute the class never assigns
NoParent == "no parent"         \* a node attached to nothing
NoError == "no error"

SIMPLE_THIRD_PERSON_CAMERA_SIDE_LEFT == -1
SIMPLE_THIRD_PERSON_CAMERA_SIDE_CENTRE == 0
SIMPLE_THIRD_PERSON_CAMERA_SIDE_RIGHT == 1

Sides == {SIMPLE_THIRD_PERSON_CAMERA_SIDE_LEFT,
          SIMPLE_THIRD_PERSON_CAMERA_SIDE_CENTRE,
          SIMPLE_THIRD_PERSON_CAMERA_SIDE_RIGHT}

Abs(x) == IF x < 0 THEN -x ELSE x

Min(a, b) == IF a < b THEN a ELSE b

\* a/b for b > 0, rounded to the nearest integer, ties to even
RoundDiv(a, b) ==
    LET n == Abs(a)
        q == n \div b
        r == n % b
        m == IF 2 * r > b \/ (2 * r = b /\ q % 2 = 1) THEN q + 1 ELSE q
    IN  IF a < 0 THEN -m ELSE m

\* the square root of n >= 0, rounded to the nearest integer
RoundSqrt(n) ==
    LET f == CHOOSE k \in 0..n : k * k <= n /\ (k + 1) * (k + 1) > n
    IN  IF n - f * f > f THEN f + 1 ELSE f


---------------------------------------------------------------------------
(* The scene graph (Panda3D's NodePath operations the rig uses) *)

Nodes == {"owner", "camera", "cameraBase", "cameraHolder", "collider"}

\* the nodes of the subtree rooted at n
RECURSIVE Subtree(_, _, _)
Subtree(n, ns, par) ==
    LET kids == {c \in ns : par[c] = n}
    IN  IF kids = {} THEN {n}
        ELSE {n} \cup UNION {Subtree(c, ns \ {n}, par) : c \in kids}

\* NodePath.detachNode(): n leaves its parent and goes on existing
DetachNode(n, par) == [par EXCEPT ![n] = NoParent]

\* NodePath.removeNode(): n and everything below it leave the scene graph for good
RemoveNode(n, ns, par) == ns \ Subtree(n, ns, par)

---------------------------------------------------------------------------
(* SimpleThirdPersonCamera.__init__ and the Panda-collision subclass's     *)
(* __init__ and setupCollision: the state after construction               *)

Kinds == {"base", "panda"}
Speeds == {1, 2}     \* adjustmentSpeed, sideSwitchSpeed: per second
ShoulderDistances == {GridPerMilli \div 2, MaxShoulder}
Radii == {0, MaxRadius}

NewRig(k, tilt, intendedDistance, shoulderSideDistance, height, adjustmentSpeed, sideSwitchSpeed, initialShoulderSide, colliderRadius) ==
    [camera |-> "camera",
     ownerNodePath |-> "owner",
     shoulderSideDistance |-> shoulderSideDistance,
     intendedDistance |-> intendedDistance,
     height |-> height,
     tilt |-> tilt,
     sideSwitchSpeed |-> sideSwitchSpeed,
     adjustmentSpeed |-> adjustmentSpeed,
     cameraBase |-> "cameraBase",
     cameraHolder |-> "cameraHolder",
     currentSide |-> initialShoulderSide,   \* self.setCurrentSide(initialShoulderSide)
     colliderRadius |-> IF k = "panda" THEN colliderRadius ELSE Unset,
     traverser |-> IF k = "panda" THEN "traverser" ELSE Unset,
     collisionQueue |-> IF k = "panda" THEN "collisionQueue" ELSE Unset,
     colliderNode |-> IF k = "panda" THEN "colliderNode" ELSE Unset,
     collider |-> IF k = "panda" THEN "collider" ELSE Unset]

Init ==
    /\ kind \in Kinds
    /\ \E ssd \in ShoulderDistances, adj \in Speeds, sss \in Speeds,
          side \in Sides, r \in Radii :
          /\ kind = "base" => r = 0
          /\ rig = NewRig(kind, -5, MaxDistance, ssd, 2, adj, sss, side, r)
    /\ nodes = IF kind = "panda" THEN Nodes ELSE Nodes \ {"collider"}
    /\ parent = [n \in Nodes |->
                    CASE n = "owner" -> "render"
                      [] n = "cameraBase" -> "owner"
                      [] n = "cameraHolder" -> "cameraBase"
                      [] n = "camera" -> "cameraHolder"
                      [] n = "collider" ->
                            IF kind = "panda" THEN "cameraBase" ELSE NoParent]
    /\ baseX = 0
    /\ baseZ = rig.height
    /\ baseP = rig.tilt
    /\ holderY = -rig.intendedDistance
    /\ travColliders = IF kind = "panda" THEN {"collider"} ELSE {}
    /\ queue = <<>>
    /\ raised = NoError
    /\ lastCall = "__init__"
    /\ lastDt = 0
    /\ lastObstacle = NoValue
    /\ releases = [camera |-> 0, collider |-> 0, cameraBase |-> 0]
    /\ cleanupCalls = 0

---------------------------------------------------------------------------
(* setCurrentSide *)

SetSide(r, side) == [r EXCEPT !.currentSide = side]

\* a faulty variant: a setCurrentSide that also moves the camera to the new side
SetCurrentSideAndMove(side) ==
    /\ rig' = SetSide(rig, side)
    /\ baseX' = rig.shoulderSideDistance * side
    /\ lastCall' = "setCurrentSide"
    /\ raised' = NoError
    /\ UNCHANGED <<kind, nodes, parent, baseZ, baseP, holderY, travColliders,
                   queue, lastDt, lastObstacle, releases, cleanupCalls>>

SetCurrentSide(side) ==
    /\ rig' = SetSide(rig, side)
    /\ lastCall' = "setCurrentSide"
    /\ raised' = NoError
    /\ UNCHANGED <<kind, nodes, parent, baseX, baseZ, baseP, holderY, travColliders,
                   queue, lastDt, lastObstacle, releases, cleanupCalls>>


---------------------------------------------------------------------------
(* The four-segment probe: setupCollision's segments and getNearestCollision *)
(* of SimpleThirdPersonCameraPandaCollision.  Coordinates are those of     *)
(* cameraBase, to which the collider is attached; the scene is rigid,      *)
(* so a distance measured in sceneRoot's coordinates is the same.          *)

Segments == 1..4

\* point A of each CollisionSegment: colliderRadius behind the base, and
\* colliderRadius to its left, to its right, below or above
SegmentOrigin(seg, r) ==
    CASE seg = 1 -> <<-r, -r, 0>>
      [] seg = 2 -> <<r, -r, 0>>
      [] seg = 3 -> <<0, -r, -r>>
      [] seg = 4 -> <<0, -r, r>>

\* point B of each CollisionSegment: intendedDistance behind the base
SegmentEnd(seg, r, intendedDistance) ==
    [SegmentOrigin(seg, r) EXCEPT ![2] = -intendedDistance]

\* the depths behind the base at which the model lets a segment be hit
Depths(r, intendedDistance) ==
    {d \in r..intendedDistance : (d - r) % DepthStep = 0} \cup {intendedDistance}

\* a collision entry: segment seg meets a solid of the scene at this depth
Hits(r, intendedDistance) ==
    [seg : Segments, depth : Depths(r, intendedDistance)]

\* sceneRoot, as the probe sees it: the intersections of its solids with the
\* four segments, at most n of them
RECURSIVE ScenesOf(_, _, _)
ScenesOf(r, intendedDistance, n) ==
    IF n = 0 THEN {{}}
    ELSE LET fewer == ScenesOf(r, intendedDistance, n - 1)
         IN  fewer \cup {S \cup {h} : S \in fewer, h \in Hits(r, intendedDistance)}

\* entry.getSurfacePoint: the point of the segment at that depth
SurfacePoint(e, r) == [SegmentOrigin(e.seg, r) EXCEPT ![2] = -e.depth]

LengthSquared(v) == v[1] * v[1] + v[2] * v[2] + v[3] * v[3]

\* LVector3.length()
Length(v) == RoundSqrt(LengthSquared(v))

Minus(v, w) == <<v[1] - w[1], v[2] - w[2], v[3] - w[3]>>

\* what CollisionHandlerQueue.sortEntries orders by: the squared distance of
\* the surface point from the origin of the entry's own segment
SortKey(e, r) == LengthSquared(Minus(SurfacePoint(e, r), SegmentOrigin(e.seg, r)))

\* a faulty variant: the entries sorted the wrong way round: the farthest first
FirstEntryFarthest(S, r) ==
    CHOOSE e \in S : \A f \in S :
        \/ LengthSquared(Minus(SurfacePoint(e, r), SegmentOrigin(e.seg, r)))
              > LengthSquared(Minus(SurfacePoint(f, r), SegmentOrigin(f.seg, r)))
        \/ /\ LengthSquared(Minus(SurfacePoint(e, r), SegmentOrigin(e.seg, r)))
                = LengthSquared(Minus(SurfacePoint(f, r), SegmentOrigin(f.seg, r)))
           /\ e.seg <= f.seg

\* the entry sortEntries puts first; entries of equal key (equal depth, on
\* different segments) may come in any order: the lowest segment is taken,
\* and the distance returned is the same for all of them
FirstEntry(S, r) ==
    CHOOSE e \in S : \A f \in S :
        \/ SortKey(e, r) < SortKey(f, r)
        \/ SortKey(e, r) = SortKey(f, r) /\ e.seg <= f.seg

\* CollisionHandlerQueue.sortEntries
RECURSIVE SortEntries(_, _)
SortEntries(S, r) ==
    IF S = {} THEN <<>>
    ELSE LET e == FirstEntry(S, r) IN <<e>> \o SortEntries(S \ {e}, r)

\* CollisionTraverser.traverse: the queue is cleared and holds one entry
\* for each intersection of a segment with the scene
Traverse(sceneRoot) == sceneRoot

\* the distance of the entry from cameraBase's position
DistanceFromBase(e, r) == Length(Minus(<<0, 0, 0>>, SurfacePoint(e, r)))

\* SimpleThirdPersonCameraPandaCollision.getNearestCollision:
\* the queue as it leaves it and the value it returns
GetNearestCollisionPanda(r, sceneRoot) ==
    LET found == Traverse(sceneRoot)
        sorted == SortEntries(found, r.colliderRadius)
    IN  IF Cardinality(found) > 0
        THEN [queue |-> sorted,
              result |-> Value(DistanceFromBase(sorted[1], r.colliderRadius))]
        ELSE [queue |-> <<>>, result |-> Value(r.intendedDistance)]

\* SimpleThirdPersonCamera.getNearestCollision: the stub's "pass" returns None
GetNearestCollisionBase(r, sceneRoot) ==
    [queue |-> <<>>, result |-> NoValue]

GetNearestCollision(k, r, sceneRoot) ==
    IF k = "panda" THEN GetNearestCollisionPanda(r, sceneRoot)
    ELSE GetNearestCollisionBase(r, sceneRoot)


\* a faulty variant: the cycle written as a step to the next number
NextCameraSideStepping(currentSide) == currentSide + 1

\* Player.switchCameraSide's choice: left, then right, then centre, then left
NextCameraSide(currentSide) ==
    IF currentSide = SIMPLE_THIRD_PERSON_CAMERA_SIDE_LEFT
    THEN SIMPLE_THIRD_PERSON_CAMERA_SIDE_RIGHT
    ELSE IF currentSide = SIMPLE_THIRD_PERSON_CAMERA_SIDE_RIGHT
         THEN SIMPLE_THIRD_PERSON_CAMERA_SIDE_CENTRE
         ELSE SIMPLE_THIRD_PERSON_CAMERA_SIDE_LEFT

\* Player.switchCameraSide: the host's key handler, the one caller of
\* setCurrentSide after construction
SwitchCameraSide == SetCurrentSide(NextCameraSide(rig.currentSide))

---------------------------------------------------------------------------
(* SimpleThirdPersonCamera.update *)

\* 0.001, the lateral difference below which the offset is set outright
SnapThreshold == 1 * GridPerMilli

Dts == 0..MaxDt

\* currentDistance = abs(self.cameraHolder.getY())
CurrentDistance(y) == Abs(y)

\* a faulty variant: the obstacle ignored
TargetYIgnoresCollision(intendedDistance, collisionDistance) == intendedDistance

\* a faulty variant: the collision distance taken whatever it is
TargetYAlwaysCollision(intendedDistance, collisionDistance) == collisionDistance

\* targetY: intendedDistance, or collisionDistance if that is smaller
TargetY(intendedDistance, collisionDistance) ==
    IF intendedDistance > collisionDistance THEN collisionDistance
    ELSE intendedDistance

\* a faulty variant: offsetVal without the "if offsetVal > 1"
OffsetValUnclamped(speed, dt) == speed * dt

\* a faulty variant: the test of "if offsetVal > 1" the wrong way round
OffsetValClampInverted(speed, dt) ==
    IF speed * dt < DtDen THEN DtDen ELSE speed * dt

\* offsetVal = speed*dt, at most 1: in DtDen-ths
OffsetVal(speed, dt) ==
    IF speed * dt > DtDen THEN DtDen ELSE speed * dt

\* offset = diff*offsetVal
Offset(diff, offsetVal) == RoundDiv(diff * offsetVal, DtDen)

\* a faulty variant: the offset applied with the wrong sign
NewHolderYWrongSign(y, targetY, adjustmentSpeed, dt) ==
    -CurrentDistance(y)
        + RoundDiv((targetY - CurrentDistance(y)) * OffsetVal(adjustmentSpeed, dt), DtDen)

\* self.cameraHolder.setY(-currentDistance -offset)
NewHolderY(y, targetY, adjustmentSpeed, dt) ==
    LET currentDistance == CurrentDistance(y)
        yDiff == targetY - currentDistance
    IN  -currentDistance - Offset(yDiff, OffsetVal(adjustmentSpeed, dt))

\* a faulty variant: the lateral placement without the 0.001 branch
NewBaseXNoSnap(x, shoulderSideDistance, currentSide, sideSwitchSpeed, dt) ==
    x + Offset(shoulderSideDistance * currentSide - x, OffsetVal(sideSwitchSpeed, dt))

\* the lateral placement: self.cameraBase.setX(currentSideDistance)
NewBaseX(x, shoulderSideDistance, currentSide, sideSwitchSpeed, dt) ==
    LET sideDiff == shoulderSideDistance * currentSide - x
    IN  IF Abs(sideDiff) < SnapThreshold
        THEN shoulderSideDistance * currentSide
        ELSE x + Offset(sideDiff, OffsetVal(sideSwitchSpeed, dt))

\* "targetY > collisionDistance" with collisionDistance None: Python raises
\* TypeError, and update ends there, before it has set anything
Update(dt, sceneRoot) ==
    /\ rig.cameraBase # None            \* no update after cleanup
    /\ LET got == GetNearestCollision(kind, rig, sceneRoot)
       IN  /\ queue' = got.queue
           /\ lastObstacle' = got.result
           /\ IF IsNone(got.result)
              THEN /\ raised' = "TypeError"
                   /\ UNCHANGED <<holderY, baseX>>
              ELSE /\ raised' = NoError
                   /\ holderY' = NewHolderY(holderY,
                                     TargetY(rig.intendedDistance, got.result[1]),
                                     rig.adjustmentSpeed, dt)
                   /\ baseX' = NewBaseX(baseX, rig.shoulderSideDistance,
                                        rig.currentSide, rig.sideSwitchSpeed, dt)
    /\ lastCall' = "update"
    /\ lastDt' = dt
    /\ UNCHANGED <<kind, rig, nodes, parent, baseZ, baseP, travColliders,
                   releases, cleanupCalls>>

\* the scenes an update of this rig is given: nothing behind the camera, or
\* one solid that meets one segment
Scenes == {{}} \cup {{h} : h \in Hits(IF kind = "panda" THEN rig.colliderRadius ELSE 0,
                                      rig.intendedDistance)}

---------------------------------------------------------------------------
(* cleanup and cleanupCollision.  Each step works on the record            *)
(* [rig, nodes, parent, travColliders, releases, raised]; a step after an  *)
(* exception is not run.                                                   *)

Release(w, what) == [w.releases EXCEPT ![what] = @ + 1]

\* if self.camera is not None: self.camera.detachNode(); self.camera = None
DetachCamera(w) ==
    IF w.raised # NoError \/ w.rig.camera = None THEN w
    ELSE [w EXCEPT !.parent = DetachNode(w.rig.camera, w.parent),
                   !.releases = Release(w, "camera"),
                   !.rig = [w.rig EXCEPT !.camera = None]]

\* if self.ownerNodePath is not None: self.ownerNodePath = None
ForgetOwner(w) ==
    IF w.raised # NoError \/ w.rig.ownerNodePath = None THEN w
    ELSE [w EXCEPT !.rig = [w.rig EXCEPT !.ownerNodePath = None]]

\* a faulty variant: cleanupCollision without its "if self.collider is not None"
CleanupCollisionPandaUnguarded(w) ==
    IF w.raised # NoError THEN w
    ELSE IF w.rig.traverser = None
         THEN [w EXCEPT !.raised = "AttributeError"]
         ELSE [w EXCEPT
                 !.travColliders = @ \ {w.rig.collider},
                 !.nodes = RemoveNode(w.rig.collider, w.nodes, w.parent),
                 !.releases = Release(w, "collider"),
                 !.rig = [w.rig EXCEPT !.collider = None, !.colliderNode = None,
                                       !.traverser = None, !.collisionQueue = None]]

\* SimpleThirdPersonCameraPandaCollision.cleanupCollision
CleanupCollisionPanda(w) ==
    IF w.raised # NoError THEN w
    ELSE LET w1 ==
               IF w.rig.collider = None THEN w
               ELSE IF w.rig.traverser = None
                    THEN [w EXCEPT !.raised = "AttributeError"]
                    ELSE [w EXCEPT
                            !.travColliders = @ \ {w.rig.collider},
                            !.nodes = RemoveNode(w.rig.collider, w.nodes, w.parent),
                            !.releases = Release(w, "collider"),
                            !.rig = [w.rig EXCEPT !.collider = None,
                                                  !.colliderNode = None]]
         IN  IF w1.raised # NoError THEN w1
             ELSE [w1 EXCEPT !.rig = [w1.rig EXCEPT !.traverser = None,
                                                    !.collisionQueue = None]]

\* SimpleThirdPersonCamera.cleanupCollision: the stub
CleanupCollisionBase(w) == w

CleanupCollision(k, w) ==
    IF k = "panda" THEN CleanupCollisionPanda(w) ELSE CleanupCollisionBase(w)

\* if self.cameraBase is not None: self.cameraBase.removeNode(); self.cameraBase = None
RemoveCameraBase(w) ==
    IF w.raised # NoError \/ w.rig.cameraBase = None THEN w
    ELSE [w EXCEPT !.nodes = RemoveNode(w.rig.cameraBase, w.nodes, w.parent),
                   !.releases = Release(w, "cameraBase"),
                   !.rig = [w.rig EXCEPT !.cameraBase = None]]

\* a faulty variant: the rig's nodes removed before the camera is detached
CleanupStepsBaseFirst(k, w) ==
    DetachCamera(CleanupCollision(k, ForgetOwner(RemoveCameraBase(w))))

\* the body of cleanup, in the order of its statements
CleanupSteps(k, w) ==
    RemoveCameraBase(CleanupCollision(k, ForgetOwner(DetachCamera(w))))

Cleanup ==
    /\ cleanupCalls < MaxCleanups
    /\ LET w == [rig |-> rig, nodes |-> nodes, parent |-> parent,
                 travColliders |-> travColliders, releases |-> releases,
                 raised |-> NoError]
           done == CleanupSteps(kind, w)
       IN  /\ rig' = done.rig
           /\ nodes' = done.nodes
           /\ parent' = done.parent
           /\ travColliders' = done.travColliders
           /\ releases' = done.releases
           /\ raised' = done.raised
    /\ lastCall' = "cleanup"
    /\ cleanupCalls' = cleanupCalls + 1
    /\ UNCHANGED <<kind, baseX, baseZ, baseP, holderY, queue, lastDt, lastObstacle>>

---------------------------------------------------------------------------

Next ==
    \/ \E side \in Sides : SetCurrentSide(side)
    \/ SwitchCameraSide
    \/ \E dt \in Dts, sceneRoot \in Scenes : Update(dt, sceneRoot)
    \/ Cleanup

Spec == Init /\ [][Next]_vars

\* the host's update task runs every frame (Game.update, added to the task
\* manager): while the rig is in use, update is called again and again
AnyUpdate == \E dt \in Dts, sceneRoot \in Scenes : Update(dt, sceneRoot)

\* the rigs whose convergence is followed: the lateral tunables, which the
\* distance does not depend on, are fixed
InitLive ==
    /\ Init
    /\ rig.shoulderSideDistance = GridPerMilli \div 2
    /\ rig.sideSwitchSpeed = 1
    /\ rig.currentSide = SIMPLE_THIRD_PERSON_CAMERA_SIDE_CENTRE

SpecLive == InitLive /\ [][Next]_vars /\ WF_vars(AnyUpdate)

---------------------------------------------------------------------------
(* The probe on its own: getNearestCollision called on a Panda-collision   *)
(* rig with scenes of up to MaxHits intersections                          *)

ProbeScenes == ScenesOf(rig.colliderRadius, rig.intendedDistance, MaxHits)

NearestCollision(sceneRoot) ==
    /\ rig.cameraBase # None
    /\ LET got == GetNearestCollision(kind, rig, sceneRoot)
       IN  /\ queue' = got.queue
           /\ lastObstacle' = got.result
    /\ lastCall' = "getNearestCollision"
    /\ raised' = NoError
    /\ UNCHANGED <<kind, rig, nodes, parent, baseX, baseZ, baseP, holderY,
                   travColliders, lastDt, releases, cleanupCalls>>

InitProbe == Init /\ kind = "panda"

NextProbe == \E sceneRoot \in ProbeScenes : NearestCollision(sceneRoot)

SpecProbe == InitProbe /\ [][NextProbe]_vars

---------------------------------------------------------------------------
(* update with any dt: the method takes the dt it is given, and nothing in *)
(* it looks at its sign                                                    *)

AnyDts == (-MaxDt)..MaxDt

\* with a negative dt the camera moves away from its target, further at
\* every call: the positions followed are those within twice the rig's reach
UpdateAnyDt(dt, sceneRoot) ==
    /\ Update(dt, sceneRoot)
    /\ Abs(holderY') <= 2 * MaxDistance
    /\ Abs(baseX') <= 2 * MaxShoulder

\* the rigs whose blend factors are followed: Panda-collision rigs, whose
\* update returns, with segments on the axis
InitDt ==
    /\ Init
    /\ kind = "panda"
    /\ rig.colliderRadius = 0

\* the scenes these updates are given: nothing behind the camera, or one
\* solid on the first segment
DtScenes == {S \in Scenes : \A h \in S : h.seg = 1}

NextDt ==
    \/ SwitchCameraSide
    \/ \E dt \in AnyDts, sceneRoot \in DtScenes : UpdateAnyDt(dt, sceneRoot)

SpecDt == InitDt /\ [][NextDt]_vars


---------------------------------------------------------------------------
(* What the claims are stated in *)

\* the last call was an update, and it returned
UpdateCompleted == lastCall = "update" /\ raised = NoError

\* the update that leads to the next state returns
UpdateCompletes == lastCall' = "update" /\ raised' = NoError

\* the lateral offset the current side asks for
TargetLateral == rig.shoulderSideDistance * rig.currentSide

\* min(intendedDistance, obstacleDistance) of the last completed update
LastTarget == Min(rig.intendedDistance, lastObstacle[1])

---------------------------------------------------------------------------
(* C1: after every completed update (dt >= 0, a probe result >= 0) the     *)
(* holder's distance, the absolute value of its backward offset, lies in   *)
(* [0, intendedDistance].                                                  *)
C1_DistanceWithinIntended ==
    UpdateCompleted =>
        /\ CurrentDistance(holderY) >= 0
        /\ CurrentDistance(holderY) <= rig.intendedDistance

\* an update has pulled the camera in, to strictly between 0 and intendedDistance
C1_Witness ==
    /\ UpdateCompleted
    /\ lastDt > 0
    /\ CurrentDistance(holderY) > 0
    /\ CurrentDistance(holderY) < rig.intendedDistance

(* C2: a rig of the base class, no probe overridden, is always             *)
(* unobstructed: every update completes without an error and its target    *)
(* distance is intendedDistance.                                           *)
C2_BaseRigUpdateCompletes ==
    (kind = "base" /\ lastCall = "update") =>
        /\ raised = NoError
        /\ lastObstacle = Value(rig.intendedDistance)

(* C3: cleanup is idempotent, for the base rig and the Panda-collision     *)
(* rig: a cleanup after the first raises nothing, releases nothing again   *)
(* (no camera detach, no collider removal, no anchor removal) and leaves   *)
(* the rig and the scene graph as the first call left them.                *)
C3_CleanupIdempotent ==
    [][(lastCall' = "cleanup" /\ cleanupCalls >= 1) =>
          /\ raised' = NoError
          /\ releases' = releases
          /\ UNCHANGED <<kind, rig, nodes, parent, baseX, baseZ, baseP, holderY,
                         travColliders, queue>>]_vars

\* cleanup has been called twice on a Panda-collision rig
C3_Witness ==
    /\ kind = "panda"
    /\ lastCall = "cleanup"
    /\ cleanupCalls = 2
    /\ releases = [camera |-> 1, collider |-> 1, cameraBase |-> 1]

(* C9: cleanup does not destroy what the rig borrowed: the camera is       *)
(* detached and the owner forgotten before the anchor's subtree is         *)
(* removed, so after cleanup the anchor, the holder and the collider are   *)
(* gone and the camera and the owner still exist.                          *)
C9_CleanupKeepsBorrowedNodes ==
    cleanupCalls >= 1 =>
        /\ raised = NoError
        /\ "camera" \in nodes
        /\ "owner" \in nodes
        /\ parent["camera"] = NoParent
        /\ rig.camera = None
        /\ rig.ownerNodePath = None
        /\ nodes \cap {"cameraBase", "cameraHolder", "collider"} = {}
        /\ rig.cameraBase = None
        /\ travColliders = {}
        /\ kind = "panda" =>
              /\ rig.collider = None
              /\ rig.traverser = None
              /\ rig.collisionQueue = None
        /\ \A what \in DOMAIN releases : releases[what] <= 1

\* a Panda-collision rig has been cleaned up: each of its nodes released once
C9_Witness ==
    /\ kind = "panda"
    /\ cleanupCalls = 1
    /\ releases = [camera |-> 1, collider |-> 1, cameraBase |-> 1]
    /\ nodes = {"camera", "owner"}


(* C8: setCurrentSide changes currentSide and nothing else: not the        *)
(* anchor's lateral offset, not the holder's distance, no tunable; just    *)
(* after construction, whatever initialSide was, the lateral offset is     *)
(* still 0 and the distance intendedDistance; the lateral offset moves     *)
(* only in an update.                                                      *)
C8_SetCurrentSideOnlySide ==
    /\ [](lastCall = "__init__" =>
              baseX = 0 /\ CurrentDistance(holderY) = rig.intendedDistance)
    /\ [][/\ lastCall' = "setCurrentSide" =>
                /\ rig' = [rig EXCEPT !.currentSide = rig'.currentSide]
                /\ UNCHANGED <<kind, nodes, parent, baseX, baseZ, baseP, holderY,
                               travColliders, queue, releases>>
          /\ baseX' # baseX => lastCall' = "update"]_vars

\* the side has been switched to one the camera is not at yet
C8_Witness ==
    /\ lastCall = "setCurrentSide"
    /\ rig.currentSide = SIMPLE_THIRD_PERSON_CAMERA_SIDE_RIGHT
    /\ baseX < 0
    /\ TargetLateral > 0

(* C7: an update that completes, begun with the lateral offset less than   *)
(* 0.001 from shoulderSideDistance*currentSide, leaves the lateral offset  *)
(* at exactly shoulderSideDistance*currentSide, whatever dt and            *)
(* sideSwitchSpeed are.                                                    *)
C7_LateralSnap ==
    [][(UpdateCompletes /\ Abs(TargetLateral - baseX) < SnapThreshold) =>
          baseX' = TargetLateral]_vars

\* an update with dt = 0, which blends nothing, has left the camera exactly
\* at a shoulder position
C7_Witness ==
    /\ UpdateCompleted
    /\ lastDt = 0
    /\ TargetLateral # 0
    /\ baseX = TargetLateral

(* C6: an update with adjustmentSpeed*dt >= 1 that completes leaves the    *)
(* holder's distance at exactly min(intendedDistance, obstacleDistance).   *)
C6_LargeDtSnaps ==
    (UpdateCompleted /\ rig.adjustmentSpeed * lastDt >= DtDen) =>
        CurrentDistance(holderY) = LastTarget

\* an update with adjustmentSpeed*dt > 1 has put the camera at an obstacle
C6_Witness ==
    /\ UpdateCompleted
    /\ rig.adjustmentSpeed * lastDt > DtDen
    /\ lastObstacle[1] < rig.intendedDistance
    /\ CurrentDistance(holderY) = lastObstacle[1]


(* C5: with targetDistance fixed and dt > 0 constant over repeated         *)
(* updates, every tick moves the holder's distance strictly toward         *)
(* targetDistance (|targetDistance - currentDistance| strictly decreases)  *)
(* and never to the other side of it.                                      *)
C5_StrictlyTowardTarget ==
    [][(/\ UpdateCompleted /\ UpdateCompletes
        /\ lastDt' > 0 /\ lastDt' = lastDt
        /\ Min(rig.intendedDistance, lastObstacle'[1]) = LastTarget) =>
          LET t == LastTarget
              d == CurrentDistance(holderY)
              e == CurrentDistance(holderY')
          IN  /\ Abs(t - e) < Abs(t - d)
              /\ d <= t => e <= t
              /\ d >= t => e >= t]_vars

(* C5, amended: every completed update with dt > 0 leaves the holder's     *)
(* distance no further from targetDistance than it was and on the same     *)
(* side of it; the distance moves strictly toward targetDistance whenever  *)
(* the blend step |targetDistance - currentDistance| * min(speed*dt, 1)    *)
(* is more than half the resolution of the stored distance, and stays      *)
(* where it is when it already equals targetDistance.                      *)
C5_NeverAwayNeverAcross ==
    [][(UpdateCompletes /\ lastDt' > 0) =>
          LET t == Min(rig.intendedDistance, lastObstacle'[1])
              d == CurrentDistance(holderY)
              e == CurrentDistance(holderY')
              blend == IF rig.adjustmentSpeed * lastDt' > DtDen THEN DtDen
                       ELSE rig.adjustmentSpeed * lastDt'
          IN  /\ Abs(t - e) <= Abs(t - d)
              /\ d <= t => e <= t
              /\ d >= t => e >= t
              /\ 2 * Abs(t - d) * blend > DtDen => Abs(t - e) < Abs(t - d)
              /\ d = t => e = t]_vars

\* an update that blends by less than 1 has brought the camera part of
\* the way from intendedDistance to an obstacle
C5_Witness ==
    /\ UpdateCompleted
    /\ lastDt > 0
    /\ rig.adjustmentSpeed * lastDt < DtDen
    /\ LastTarget < CurrentDistance(holderY)
    /\ CurrentDistance(holderY) < rig.intendedDistance

(* C4: under repeated updates with a constant dt > 0, once the probe       *)
(* result stays at one value d the holder's distance converges to          *)
(* min(intendedDistance, d) and stays: to d when d < intendedDistance, and *)
(* back to intendedDistance when the probe returns that again.  Converged  *)
(* is: the remaining difference, times the blend factor, is no more than   *)
(* half the resolution of the stored distance (with a blend factor of 1:   *)
(* no difference is left).                                                 *)
C4_Settled ==
    (UpdateCompleted /\ lastDt > 0 /\ rig.cameraBase # None) =>
        2 * Abs(LastTarget - CurrentDistance(holderY))
            * Min(rig.adjustmentSpeed * lastDt, DtDen) <= DtDen

\* a step other than one more update with the dt and the probe result of
\* the update before it
C4_Disturbed ==
    ~(/\ UpdateCompleted /\ UpdateCompletes
      /\ lastDt' = lastDt /\ lastObstacle' = lastObstacle)

C4_Converges == ([]<><<C4_Disturbed>>_vars) \/ <>[]C4_Settled

\* updates that blend by less than 1 have brought the camera in from
\* intendedDistance to within the resolution of an obstacle
C4_Witness ==
    /\ UpdateCompleted
    /\ lastDt > 0
    /\ rig.adjustmentSpeed * lastDt < DtDen
    /\ lastObstacle[1] + 2 < rig.intendedDistance
    /\ CurrentDistance(holderY) < rig.intendedDistance - 1
    /\ C4_Settled


---------------------------------------------------------------------------
\* the intersections the last traversal recorded
QueuedHits == {queue[i] : i \in 1..Len(queue)}

\* the distance from the anchor to a point of the segments, squared: the
\* depth behind the anchor and the colliderRadius to its side
AnchorDistanceSquared(h) ==
    h.depth * h.depth + rig.colliderRadius * rig.colliderRadius

\* the query returned the distance from the anchor to the nearest
\* intersection, or intendedDistance when there is none
ReturnsNearest ==
    /\ QueuedHits = {} => lastObstacle = Value(rig.intendedDistance)
    /\ QueuedHits # {} =>
          \E h \in QueuedHits :
              /\ \A g \in QueuedHits : AnchorDistanceSquared(h) <= AnchorDistanceSquared(g)
              /\ lastObstacle = Value(RoundSqrt(AnchorDistanceSquared(h)))

(* C10: getNearestCollision of the Panda-collision rig returns, for every  *)
(* scene, a non-negative distance <= intendedDistance: the distance from   *)
(* the anchor to the nearest hit on its four segments, and exactly         *)
(* intendedDistance when there is no hit.                                  *)
C10_NearestWithinIntended ==
    lastCall = "getNearestCollision" =>
        /\ lastObstacle[1] >= 0
        /\ lastObstacle[1] <= rig.intendedDistance
        /\ ReturnsNearest

(* C10, amended: getNearestCollision returns a non-negative distance, the  *)
(* distance from the anchor to the nearest hit on its four segments, and   *)
(* exactly intendedDistance when there is no hit.  A hit can be further    *)
(* from the anchor than intendedDistance, the segments running             *)
(* colliderRadius beside it: the distance returned is at most that of a    *)
(* segment's far end, sqrt(intendedDistance^2 + colliderRadius^2).         *)
C10_NearestWithinSegmentEnd ==
    lastCall = "getNearestCollision" =>
        /\ lastObstacle[1] >= 0
        /\ lastObstacle[1] <=
              Length(SegmentEnd(1, rig.colliderRadius, rig.intendedDistance))
        /\ ReturnsNearest

\* two hits: the nearer one is returned, the other is further from the
\* anchor than intendedDistance
C10_Witness ==
    /\ lastCall = "getNearestCollision"
    /\ Len(queue) = 2
    /\ queue[1].depth < queue[2].depth
    /\ queue[1].seg > queue[2].seg
    /\ lastObstacle[1] < rig.intendedDistance
    /\ RoundSqrt(AnchorDistanceSquared(queue[2])) > rig.intendedDistance

---------------------------------------------------------------------------
\* C11: whatever setCurrentSide, switchCameraSide, update and cleanup calls
\* follow the construction, currentSide is one of the three values LEFT (-1),
\* CENTRE (0) and RIGHT (1).
C11_CurrentSideEnumerated == rig.currentSide \in Sides

\* the side has been switched to the right after an update that moved the rig
C11_Witness ==
    /\ lastCall = "setCurrentSide"
    /\ rig.currentSide = SIMPLE_THIRD_PERSON_CAMERA_SIDE_RIGHT
    /\ lastDt > 0
    /\ baseX < 0

(* C12: in every update that returns, whatever its dt, the factor          *)
(* multiplied into the distance difference is adjustmentSpeed*dt clamped   *)
(* to [0, 1] and the factor multiplied into the lateral difference is      *)
(* sideSwitchSpeed*dt clamped to [0, 1]: never below 0, never above 1.     *)
C12_BlendWithinUnitInterval ==
    [][UpdateCompletes =>
          LET t == Min(rig.intendedDistance, lastObstacle'[1])
              d == CurrentDistance(holderY)
              s == rig.shoulderSideDistance * rig.currentSide - baseX
              Clamp(rate) == LET v == rate * lastDt'
                             IN  IF v < 0 THEN 0
                                 ELSE IF v > DtDen THEN DtDen ELSE v
          IN  /\ holderY' = -d - RoundDiv((t - d) * Clamp(rig.adjustmentSpeed), DtDen)
              /\ Abs(s) >= SnapThreshold =>
                    baseX' = baseX + RoundDiv(s * Clamp(rig.sideSwitchSpeed), DtDen)]_vars

(* C12, amended: the factors are min(adjustmentSpeed*dt, 1) and            *)
(* min(sideSwitchSpeed*dt, 1), clamped from above only.  For every         *)
(* dt >= 0 and positive rate the factor multiplied into the difference is  *)
(* never below 0 and never above 1; for dt < 0 it is rate*dt, below 0.     *)
C12_BlendClampedAboveOnly ==
    [][UpdateCompletes =>
          LET t == Min(rig.intendedDistance, lastObstacle'[1])
              d == CurrentDistance(holderY)
              s == rig.shoulderSideDistance * rig.currentSide - baseX
              Blend(rate) == LET v == rate * lastDt'
                             IN  IF v > DtDen THEN DtDen ELSE v
          IN  /\ lastDt' >= 0 =>
                    /\ Blend(rig.adjustmentSpeed) \in 0..DtDen
                    /\ Blend(rig.sideSwitchSpeed) \in 0..DtDen
              /\ lastDt' < 0 =>
                    /\ Blend(rig.adjustmentSpeed) = rig.adjustmentSpeed * lastDt'
                    /\ Blend(rig.adjustmentSpeed) < 0
                    /\ Blend(rig.sideSwitchSpeed) = rig.sideSwitchSpeed * lastDt'
                    /\ Blend(rig.sideSwitchSpeed) < 0
              /\ holderY' = -d - RoundDiv((t - d) * Blend(rig.adjustmentSpeed), DtDen)
              /\ Abs(s) >= SnapThreshold =>
                    baseX' = baseX + RoundDiv(s * Blend(rig.sideSwitchSpeed), DtDen)]_vars

\* an update with a dt > 0 and a factor below 1 has brought the camera part
\* of the way back from beyond intendedDistance, where only updates with a
\* negative dt can have put it
C12_Witness ==
    /\ UpdateCompleted
    /\ lastDt > 0
    /\ rig.adjustmentSpeed * lastDt < DtDen
    /\ CurrentDistance(holderY) > rig.intendedDistance

===========================================================================
